---- MODULE Spec2Model ----
(***************************************************************************)
(* State-machine model of src/ugci_driver.c (the UGCI USB bulk driver).    *)
(*                                                                         *)
(* One struct usb_ugci is modelled together with the processes that touch  *)
(* it: user threads calling read/write/flush on an open file, the USB      *)
(* core calling suspend / pre_reset / post_reset / disconnect, and the     *)
(* host controller giving back URBs (the two completion callbacks).        *)
(*                                                                         *)
(* Atomicity: one action is one run of code between two points where       *)
(* another process can observe or change what the code touches.  Code      *)
(* that runs under io_mutex and touches only data that io_mutex protects   *)
(* (interface, bulk_in_filled/copied while no inbound URB is out, the      *)
(* submission itself) is folded into the step that precedes it; the        *)
(* unlocked load of dev->errors in ugci_read (line 280) and its later      *)
(* store (line 284) are separate steps.                                    *)
(***************************************************************************)
EXTENDS Integers, Sequences, FiniteSets, TLC

(* ---- program constants ------------------------------------------------ *)
WRITES_IN_FLIGHT == 8
ENOENT == 2
EINTR == 4
EIO == 5
EAGAIN == 11
ENOMEM == 12
EFAULT == 14
ENODEV == 19
EPIPE == 32
EPROTO == 71
ECONNRESET == 104
ESHUTDOWN == 108
ERESTARTSYS == 512

(* ---- bounds ------------------------------------------------------------ *)
NThreads == 2      \* user threads sharing the open device
BulkInSize == 2    \* usb_endpoint_maxp(bulk_in): capacity of bulk_in_buffer
MaxCount == 3      \* largest length a read call asks for

Core == 0
Threads == 1..NThreads
Procs == 0..NThreads
NoOwner == -1
ReadCounts == 0..MaxCount
PAGE_SIZE == 4096
MAX_TRANSFER == PAGE_SIZE - 512
WriteCounts == {0, 1, MAX_TRANSFER + 1}

Min(a, b) == IF a < b THEN a ELSE b

VARIABLES
    interface,        \* dev->interface != NULL
    limit_sem,        \* count of dev->limit_sem
    submitted,        \* number of URBs on the anchor dev->submitted (out, not given back)
    in_urb,           \* number of submissions of dev->bulk_in_urb not yet given back
    in_len,           \* transfer_buffer_length of dev->bulk_in_urb
    bulk_in_buffer,   \* dev->bulk_in_buffer: per byte "none" (never written), "fresh"
                      \* (written by the device, not copied out), "used" (copied out)
    bulk_in_filled,
    bulk_in_copied,
    errors,           \* dev->errors
    ongoing_read,     \* dev->ongoing_read
    io_mutex,         \* owner of dev->io_mutex, or NoOwner
    pc,               \* position of each process
    call,             \* the handler each process is running
    count,            \* the call's count argument
    nonblock,         \* file->f_flags & O_NONBLOCK of the call
    rv,               \* rv / retval of the call
    unreported,       \* history: dev->errors holds a status no call has picked up
    quiet,            \* history: a flush returned an error and no read/write/reset ran since
    atDetach,         \* history: calls that were blocked when disconnect() began
    kref,             \* dev->kref
    opened,           \* threads holding an open file (file->private_data == dev)
    deleted,          \* number of runs of ugci_delete
    urb_len,          \* transfer_buffer_length of the URB the call has submitted
    from_reset        \* history: dev->errors holds the value post_reset stored

devvars == <<interface, limit_sem, submitted, in_urb, in_len, bulk_in_buffer,
             bulk_in_filled, bulk_in_copied, errors, ongoing_read, io_mutex>>
procvars == <<pc, call, count, nonblock, rv>>
histvars == <<unreported, quiet, atDetach>>
lifevars == <<kref, opened, deleted>>
vars == <<devvars, procvars, histvars, lifevars, urb_len, from_reset>>

(* ---- initial state: ugci_probe has succeeded and every thread has opened   *)
(* ---- the device (kref: one reference of probe, one of each open)         *)
Init ==
    /\ interface = TRUE
    /\ limit_sem = WRITES_IN_FLIGHT
    /\ submitted = 0
    /\ in_urb = 0
    /\ in_len = 0
    /\ bulk_in_buffer = [i \in 1..BulkInSize |-> "none"]
    /\ bulk_in_filled = 0
    /\ bulk_in_copied = 0
    /\ errors = 0
    /\ ongoing_read = FALSE
    /\ io_mutex = NoOwner
    /\ pc = [p \in Procs |-> "idle"]
    /\ call = [p \in Procs |-> "none"]
    /\ count = [t \in Threads |-> 0]
    /\ nonblock = [t \in Threads |-> FALSE]
    /\ rv = [t \in Threads |-> 0]
    /\ unreported = FALSE
    /\ quiet = FALSE
    /\ atDetach = {}
    /\ kref = 1 + NThreads
    /\ opened = Threads
    /\ deleted = 0
    /\ urb_len = [t \in Threads |-> 0]
    /\ from_reset = FALSE

(* ---- helpers ------------------------------------------------------------ *)
\* statuses a URB is given back with by the host controller on its own
UrbStatuses == {0, -EPIPE, -EPROTO}
\* results of usb_submit_urb
SubmitResults == {0, -ENOMEM, -ENODEV}

\* "sync/async unlink faults": the statuses the callbacks test for
IsUnlink(status) ==
    status = -ENOENT \/ status = -ECONNRESET \/ status = -ESHUTDOWN

\* mutant of MapError: the recorded status is returned as it is
MapError_Raw(e) == e

\* rv = (rv == -EPIPE) ? rv : -EIO
MapError(e) == IF e = -EPIPE THEN e ELSE -EIO

Goto(p, l) == pc' = [pc EXCEPT ![p] = l]

\* the call of thread t returns v
Return(t, v) ==
    /\ pc' = [pc EXCEPT ![t] = "ret"]
    /\ rv' = [rv EXCEPT ![t] = v]
    /\ count' = [count EXCEPT ![t] = 0]
    /\ nonblock' = [nonblock EXCEPT ![t] = FALSE]
    /\ UNCHANGED call

\* a call that is blocked: a read waiting for the inbound completion, a
\* blocking write waiting for a permit
Blocked(t) ==
    \/ pc[t] = "r_wait" /\ ongoing_read
    \/ pc[t] = "w_down" /\ ~nonblock[t] /\ limit_sem = 0

\* kref_put(&dev->kref, ugci_delete): the reference count goes down by one,
\* and ugci_delete runs when it reaches zero
kref_put ==
    /\ kref' = kref - 1
    /\ deleted' = IF kref = 1 THEN deleted + 1 ELSE deleted

(* ---- completion callbacks ----------------------------------------------- *)
\* body of ugci_read_bulk_callback for a URB given back with status and
\* actual_length len
ugci_read_bulk_callback(status, len) ==
    /\ IF status # 0
       THEN /\ errors' = status
            /\ unreported' = TRUE
            /\ from_reset' = FALSE
            /\ UNCHANGED <<bulk_in_filled, bulk_in_buffer>>
       ELSE /\ bulk_in_filled' = len
            /\ bulk_in_buffer' = [i \in 1..BulkInSize |->
                                    IF i <= len THEN "fresh" ELSE bulk_in_buffer[i]]
            /\ UNCHANGED <<errors, unreported, from_reset>>
    /\ ongoing_read' = FALSE
    /\ in_urb' = in_urb - 1

\* body of ugci_write_bulk_callback for a URB given back with status
ugci_write_bulk_callback(status) ==
    /\ IF status # 0
       THEN errors' = status /\ unreported' = TRUE /\ from_reset' = FALSE
       ELSE UNCHANGED <<errors, unreported, from_reset>>
    /\ submitted' = submitted - 1
    /\ limit_sem' = limit_sem + 1

\* the host controller gives back the inbound URB
ReadComplete ==
    /\ in_urb > 0
    /\ \E status \in UrbStatuses : \E len \in 0..in_len :
          /\ (status # 0 => len = 0)
          /\ ugci_read_bulk_callback(status, len)
    /\ UNCHANGED <<interface, limit_sem, submitted, in_len, bulk_in_copied, io_mutex>>
    /\ UNCHANGED <<procvars, quiet, atDetach>>
    /\ UNCHANGED <<kref, opened, deleted, urb_len>>

\* the host controller gives back one outbound URB
WriteComplete ==
    /\ submitted > 0
    /\ \E status \in UrbStatuses : ugci_write_bulk_callback(status)
    /\ UNCHANGED <<interface, in_urb, in_len, bulk_in_buffer, bulk_in_filled,
                   bulk_in_copied, ongoing_read, io_mutex>>
    /\ UNCHANGED <<procvars, quiet, atDetach>>
    /\ UNCHANGED <<kref, opened, deleted, urb_len>>

(* ---- ugci_read ---------------------------------------------------------- *)
\* mutant of ugci_do_read_io: bulk_in_copied is not reset
ugci_do_read_io_KeepCopied(n, res) ==
    /\ in_len' = Min(BulkInSize, n)
    /\ bulk_in_filled' = 0
    /\ UNCHANGED bulk_in_copied
    /\ ongoing_read' = (res = 0)
    /\ in_urb' = IF res = 0 THEN in_urb + 1 ELSE in_urb

\* ugci_do_read_io(dev, n) with usb_submit_urb returning res
ugci_do_read_io(n, res) ==
    /\ in_len' = Min(BulkInSize, n)
    /\ bulk_in_filled' = 0
    /\ bulk_in_copied' = 0
    /\ ongoing_read' = (res = 0)
    /\ in_urb' = IF res = 0 THEN in_urb + 1 ELSE in_urb

\* rv = (rv == -ENOMEM) ? rv : -EIO
DoReadIoError(res) == IF res = -ENOMEM THEN res ELSE -EIO

\* lines 239-243: read(file, buffer, n, ppos) is entered
ReadCall(t) ==
    /\ pc[t] = "idle"
    /\ \E n \in ReadCounts : \E nb \in BOOLEAN :
          IF n = 0
          THEN /\ pc' = [pc EXCEPT ![t] = "ret"]
               /\ rv' = [rv EXCEPT ![t] = 0]
               /\ UNCHANGED <<count, nonblock>>
          ELSE /\ pc' = [pc EXCEPT ![t] = "r_lock"]
               /\ count' = [count EXCEPT ![t] = n]
               /\ nonblock' = [nonblock EXCEPT ![t] = nb]
               /\ UNCHANGED rv
    /\ call' = [call EXCEPT ![t] = "read"]
    /\ quiet' = FALSE
    /\ UNCHANGED <<devvars, unreported, atDetach>>
    /\ UNCHANGED <<kref, opened, deleted, urb_len, from_reset>>

\* mutant of ReadLock: dev->interface is not tested
ReadLock_NoTest(t) ==
    /\ pc[t] = "r_lock"
    /\ io_mutex = NoOwner
    /\ Goto(t, "r_retry") /\ io_mutex' = t /\ UNCHANGED <<call, count, nonblock, rv>>
    /\ quiet' = FALSE
    /\ UNCHANGED <<interface, limit_sem, submitted, in_urb, in_len, bulk_in_buffer,
                   bulk_in_filled, bulk_in_copied, errors, ongoing_read>>
    /\ UNCHANGED <<unreported, atDetach>>
    /\ UNCHANGED <<kref, opened, deleted, urb_len, from_reset>>

\* lines 246-254: mutex_lock_interruptible succeeds; the interface test
ReadLock(t) ==
    /\ pc[t] = "r_lock"
    /\ io_mutex = NoOwner
    /\ IF ~interface
       THEN Return(t, -ENODEV) /\ UNCHANGED io_mutex
       ELSE Goto(t, "r_retry") /\ io_mutex' = t /\ UNCHANGED <<call, count, nonblock, rv>>
    /\ quiet' = FALSE
    /\ UNCHANGED <<interface, limit_sem, submitted, in_urb, in_len, bulk_in_buffer,
                   bulk_in_filled, bulk_in_copied, errors, ongoing_read>>
    /\ UNCHANGED <<unreported, atDetach>>
    /\ UNCHANGED <<kref, opened, deleted, urb_len, from_reset>>

\* lines 246-248: a signal arrives while the call sleeps on io_mutex
ReadLockInterrupted(t) ==
    /\ pc[t] = "r_lock"
    /\ io_mutex # NoOwner
    /\ Return(t, -EINTR)
    /\ quiet' = FALSE
    /\ UNCHANGED <<devvars, unreported, atDetach>>
    /\ UNCHANGED <<kref, opened, deleted, urb_len, from_reset>>

\* mutant of ReadRetry: the snapshot of ongoing_read is not tested
ReadRetry_NoTest(t) ==
    /\ pc[t] = "r_retry"
    /\ Goto(t, "r_err")
    /\ quiet' = FALSE
    /\ UNCHANGED <<devvars, call, count, nonblock, rv, unreported, atDetach>>
    /\ UNCHANGED <<kref, opened, deleted, urb_len, from_reset>>

\* lines 257-277: the snapshot of ongoing_read at retry
ReadRetry(t) ==
    /\ pc[t] = "r_retry"
    /\ IF ongoing_read
       THEN IF nonblock[t]
            THEN Return(t, -EAGAIN) /\ io_mutex' = NoOwner
            ELSE Goto(t, "r_wait") /\ UNCHANGED <<call, count, nonblock, rv, io_mutex>>
       ELSE Goto(t, "r_err") /\ UNCHANGED <<call, count, nonblock, rv, io_mutex>>
    /\ quiet' = FALSE
    /\ UNCHANGED <<interface, limit_sem, submitted, in_urb, in_len, bulk_in_buffer,
                   bulk_in_filled, bulk_in_copied, errors, ongoing_read>>
    /\ UNCHANGED <<unreported, atDetach>>
    /\ UNCHANGED <<kref, opened, deleted, urb_len, from_reset>>

\* line 274: wait_event_interruptible returns 0, io_mutex held throughout
ReadWait(t) ==
    /\ pc[t] = "r_wait"
    /\ ~ongoing_read
    /\ Goto(t, "r_err")
    /\ quiet' = FALSE
    /\ UNCHANGED <<devvars, call, count, nonblock, rv, unreported, atDetach>>
    /\ UNCHANGED <<kref, opened, deleted, urb_len, from_reset>>

\* lines 274-276, 344-346: a signal ends the wait
ReadWaitInterrupted(t) ==
    /\ pc[t] = "r_wait"
    /\ ongoing_read
    /\ Return(t, -ERESTARTSYS)
    /\ io_mutex' = NoOwner
    /\ quiet' = FALSE
    /\ UNCHANGED <<interface, limit_sem, submitted, in_urb, in_len, bulk_in_buffer,
                   bulk_in_filled, bulk_in_copied, errors, ongoing_read>>
    /\ UNCHANGED <<unreported, atDetach>>
    /\ UNCHANGED <<kref, opened, deleted, urb_len, from_reset>>

\* lines 280-281: rv = dev->errors is loaded (no err_lock) and is negative
ReadLoadError(t) ==
    /\ pc[t] = "r_err"
    /\ errors < 0
    /\ Goto(t, "r_errclr")
    /\ rv' = [rv EXCEPT ![t] = errors]
    /\ unreported' = FALSE
    /\ quiet' = FALSE
    /\ UNCHANGED <<devvars, call, count, nonblock, atDetach>>
    /\ UNCHANGED <<kref, opened, deleted, urb_len, from_reset>>

\* lines 284-288, 344-346: dev->errors = 0 is stored, the error is returned
ReadClearError(t) ==
    /\ pc[t] = "r_errclr"
    /\ errors' = 0
    /\ unreported' = FALSE
    /\ Return(t, MapError(rv[t]))
    /\ io_mutex' = NoOwner
    /\ quiet' = FALSE
    /\ UNCHANGED <<interface, limit_sem, submitted, in_urb, in_len, bulk_in_buffer,
                   bulk_in_filled, bulk_in_copied, ongoing_read>>
    /\ UNCHANGED <<atDetach>>
    /\ from_reset' = FALSE
    /\ UNCHANGED <<kref, opened, deleted, urb_len>>

\* lines 280-281, 296-313, 335-343: no error, nothing left in the buffer:
\* start I/O, then retry or fail
ReadStartIo(t) ==
    /\ pc[t] = "r_err"
    /\ errors >= 0
    /\ bulk_in_filled = 0 \/ bulk_in_filled - bulk_in_copied = 0
    /\ \E res \in SubmitResults :
          /\ ugci_do_read_io(count[t], res)
          /\ IF res < 0
             THEN Return(t, DoReadIoError(res)) /\ io_mutex' = NoOwner
             ELSE Goto(t, "r_retry") /\ UNCHANGED <<call, count, nonblock, rv, io_mutex>>
    /\ quiet' = FALSE
    /\ UNCHANGED <<interface, limit_sem, submitted, bulk_in_buffer, errors>>
    /\ UNCHANGED <<unreported, atDetach>>
    /\ UNCHANGED <<kref, opened, deleted, urb_len, from_reset>>

\* the read of thread t returns v; count is kept until the caller takes the
\* result, so that what was asked for can be compared with what was returned
ReturnData(t, v) ==
    /\ pc' = [pc EXCEPT ![t] = "ret"]
    /\ rv' = [rv EXCEPT ![t] = v]
    /\ nonblock' = [nonblock EXCEPT ![t] = FALSE]
    /\ UNCHANGED <<call, count>>

\* mutant of ReadDeliver: no read-ahead is started after a short delivery
ReadDeliver_NoReadAhead(t) ==
    /\ pc[t] = "r_err"
    /\ errors >= 0
    /\ bulk_in_filled # 0
    /\ bulk_in_filled - bulk_in_copied # 0
    /\ LET available == bulk_in_filled - bulk_in_copied
           chunk == Min(available, count[t])
       IN  /\ \E ok \in BOOLEAN : ReturnData(t, IF ok THEN chunk ELSE -EFAULT)
           /\ bulk_in_copied' = bulk_in_copied + chunk
           /\ bulk_in_buffer' = [i \in 1..BulkInSize |->
                                   IF bulk_in_copied < i /\ i <= bulk_in_copied + chunk
                                   THEN "used" ELSE bulk_in_buffer[i]]
    /\ io_mutex' = NoOwner
    /\ quiet' = FALSE
    /\ UNCHANGED <<interface, limit_sem, submitted, errors, in_len, bulk_in_filled,
                   ongoing_read, in_urb>>
    /\ UNCHANGED <<unreported, atDetach>>
    /\ UNCHANGED <<kref, opened, deleted, urb_len, from_reset>>

\* lines 280-281, 296-334, 344-346: no error, data in the buffer: copy a
\* chunk out (ok: copy_to_user succeeds), start read-ahead if more was asked
ReadDeliver(t) ==
    /\ pc[t] = "r_err"
    /\ errors >= 0
    /\ bulk_in_filled # 0
    /\ bulk_in_filled - bulk_in_copied # 0
    /\ LET available == bulk_in_filled - bulk_in_copied
           chunk == Min(available, count[t])
       IN  /\ \E ok \in BOOLEAN : ReturnData(t, IF ok THEN chunk ELSE -EFAULT)
           /\ IF available < count[t]
              THEN \E res \in SubmitResults : ugci_do_read_io(count[t] - chunk, res)
              ELSE /\ bulk_in_copied' = bulk_in_copied + chunk
                   /\ UNCHANGED <<in_len, bulk_in_filled, ongoing_read, in_urb>>
           /\ bulk_in_buffer' = [i \in 1..BulkInSize |->
                                   IF bulk_in_copied < i /\ i <= bulk_in_copied + chunk
                                   THEN "used" ELSE bulk_in_buffer[i]]
    /\ io_mutex' = NoOwner
    /\ quiet' = FALSE
    /\ UNCHANGED <<interface, limit_sem, submitted, errors>>
    /\ UNCHANGED <<unreported, atDetach>>
    /\ UNCHANGED <<kref, opened, deleted, urb_len, from_reset>>

\* the caller has its result; the thread is free for its next call
Done(t) ==
    /\ pc[t] = "ret"
    /\ pc' = [pc EXCEPT ![t] = "idle"]
    /\ call' = [call EXCEPT ![t] = "none"]
    /\ rv' = [rv EXCEPT ![t] = 0]
    /\ count' = [count EXCEPT ![t] = 0]
    /\ atDetach' = atDetach \ {t}
    /\ UNCHANGED <<devvars, nonblock, unreported, quiet>>
    /\ urb_len' = [urb_len EXCEPT ![t] = 0]
    /\ UNCHANGED <<kref, opened, deleted, from_reset>>

(* ---- ugci_write --------------------------------------------------------- *)
\* mutant of WriteSize: the length is not limited to MAX_TRANSFER
WriteSize_NoLimit(n) == n

\* size_t writesize = min(count, (size_t)MAX_TRANSFER)
WriteSize(n) == Min(n, MAX_TRANSFER)

\* lines 386-390: write(file, user_buffer, n, ppos) is entered
WriteCall(t) ==
    /\ pc[t] = "idle"
    /\ \E n \in WriteCounts : \E nb \in BOOLEAN :
          IF n = 0
          THEN /\ pc' = [pc EXCEPT ![t] = "ret"]
               /\ rv' = [rv EXCEPT ![t] = 0]
               /\ UNCHANGED <<count, nonblock>>
          ELSE /\ pc' = [pc EXCEPT ![t] = "w_down"]
               /\ count' = [count EXCEPT ![t] = n]
               /\ nonblock' = [nonblock EXCEPT ![t] = nb]
               /\ UNCHANGED rv
    /\ call' = [call EXCEPT ![t] = "write"]
    /\ quiet' = FALSE
    /\ UNCHANGED <<devvars, unreported, atDetach>>
    /\ UNCHANGED <<kref, opened, deleted, urb_len, from_reset>>

\* mutant of WriteDown: admission that takes no permit
WriteDown_NoPermit(t) ==
    /\ pc[t] = "w_down"
    /\ Goto(t, "w_err")
    /\ quiet' = FALSE
    /\ UNCHANGED <<devvars, call, count, nonblock, rv, unreported, atDetach>>
    /\ UNCHANGED <<kref, opened, deleted, urb_len, from_reset>>

\* mutant of WriteDown: admission that does not wait when no permit is free
WriteDown_NoWait(t) ==
    /\ pc[t] = "w_down"
    /\ limit_sem' = IF limit_sem > 0 THEN limit_sem - 1 ELSE 0
    /\ Goto(t, "w_err")
    /\ quiet' = FALSE
    /\ UNCHANGED <<interface, submitted, in_urb, in_len, bulk_in_buffer, bulk_in_filled,
                   bulk_in_copied, errors, ongoing_read, io_mutex>>
    /\ UNCHANGED <<call, count, nonblock, rv, unreported, atDetach>>
    /\ UNCHANGED <<kref, opened, deleted, urb_len, from_reset>>

\* lines 396-411: down_interruptible / down_trylock takes a permit
WriteDown(t) ==
    /\ pc[t] = "w_down"
    /\ limit_sem > 0
    /\ limit_sem' = limit_sem - 1
    /\ Goto(t, "w_err")
    /\ quiet' = FALSE
    /\ UNCHANGED <<interface, submitted, in_urb, in_len, bulk_in_buffer, bulk_in_filled,
                   bulk_in_copied, errors, ongoing_read, io_mutex>>
    /\ UNCHANGED <<call, count, nonblock, rv, unreported, atDetach>>
    /\ UNCHANGED <<kref, opened, deleted, urb_len, from_reset>>

\* lines 404-410: down_trylock finds no permit
WriteWouldBlock(t) ==
    /\ pc[t] = "w_down"
    /\ nonblock[t]
    /\ limit_sem = 0
    /\ Return(t, -EAGAIN)
    /\ quiet' = FALSE
    /\ UNCHANGED <<devvars, unreported, atDetach>>
    /\ UNCHANGED <<kref, opened, deleted, urb_len, from_reset>>

\* lines 398-402: a signal ends down_interruptible
WriteDownInterrupted(t) ==
    /\ pc[t] = "w_down"
    /\ ~nonblock[t]
    /\ limit_sem = 0
    /\ Return(t, -ERESTARTSYS)
    /\ quiet' = FALSE
    /\ UNCHANGED <<devvars, unreported, atDetach>>
    /\ UNCHANGED <<kref, opened, deleted, urb_len, from_reset>>

\* lines 413-424, 485-494: a recorded error is taken under err_lock and
\* returned, the permit released
WriteTakeError(t) ==
    /\ pc[t] = "w_err"
    /\ errors < 0
    /\ errors' = 0
    /\ unreported' = FALSE
    /\ limit_sem' = limit_sem + 1
    /\ Return(t, MapError(errors))
    /\ quiet' = FALSE
    /\ UNCHANGED <<interface, submitted, in_urb, in_len, bulk_in_buffer, bulk_in_filled,
                   bulk_in_copied, ongoing_read, io_mutex>>
    /\ UNCHANGED <<atDetach>>
    /\ from_reset' = FALSE
    /\ UNCHANGED <<kref, opened, deleted, urb_len>>

\* mutant of WritePrepare: a failure does not release the permit
WritePrepare_NoUp(t) ==
    /\ pc[t] = "w_err"
    /\ errors >= 0
    /\ \E res \in {0, -ENOMEM, -EFAULT} :
          IF res = 0
          THEN Goto(t, "w_lock") /\ UNCHANGED <<call, count, nonblock, rv>>
          ELSE Return(t, res)
    /\ quiet' = FALSE
    /\ UNCHANGED <<interface, limit_sem, submitted, in_urb, in_len, bulk_in_buffer,
                   bulk_in_filled, bulk_in_copied, errors, ongoing_read, io_mutex>>
    /\ UNCHANGED <<unreported, atDetach>>
    /\ UNCHANGED <<kref, opened, deleted, urb_len, from_reset>>

\* lines 413-446, 485-494: no error recorded; the URB and its buffer are
\* allocated and filled (res: 0, or the failure of an allocation or of
\* copy_from_user)
WritePrepare(t) ==
    /\ pc[t] = "w_err"
    /\ errors >= 0
    /\ \E res \in {0, -ENOMEM, -EFAULT} :
          IF res = 0
          THEN Goto(t, "w_lock") /\ UNCHANGED <<call, count, nonblock, rv, limit_sem>>
          ELSE Return(t, res) /\ limit_sem' = limit_sem + 1
    /\ quiet' = FALSE
    /\ UNCHANGED <<interface, submitted, in_urb, in_len, bulk_in_buffer, bulk_in_filled,
                   bulk_in_copied, errors, ongoing_read, io_mutex>>
    /\ UNCHANGED <<unreported, atDetach>>
    /\ UNCHANGED <<kref, opened, deleted, urb_len, from_reset>>

\* lines 448-494: under io_mutex: the interface test, usb_anchor_urb and
\* usb_submit_urb (res), mutex_unlock; the error paths release the permit
WriteSubmit(t) ==
    /\ pc[t] = "w_lock"
    /\ io_mutex = NoOwner
    /\ IF ~interface
       THEN /\ Return(t, -ENODEV)
            /\ limit_sem' = limit_sem + 1
            /\ UNCHANGED <<submitted, urb_len>>
       ELSE \E res \in SubmitResults :
               IF res = 0
               THEN /\ submitted' = submitted + 1
                    /\ urb_len' = [urb_len EXCEPT ![t] = WriteSize(count[t])]
                    /\ Return(t, WriteSize(count[t]))
                    /\ UNCHANGED limit_sem
               ELSE /\ Return(t, res)
                    /\ limit_sem' = limit_sem + 1
                    /\ UNCHANGED <<submitted, urb_len>>
    /\ quiet' = FALSE
    /\ UNCHANGED <<interface, in_urb, in_len, bulk_in_buffer, bulk_in_filled,
                   bulk_in_copied, errors, ongoing_read, io_mutex>>
    /\ UNCHANGED <<unreported, atDetach>>
    /\ UNCHANGED <<kref, opened, deleted, from_reset>>

(* ---- ugci_draw_down, run by flush, suspend and pre_reset ---------------- *)
\* usb_kill_urb(dev->bulk_in_urb): an inbound URB that is out is given back
\* with -ENOENT before the call returns
KillInbound ==
    IF in_urb > 0
    THEN ugci_read_bulk_callback(-ENOENT, 0)
    ELSE UNCHANGED <<errors, unreported, from_reset, bulk_in_filled, bulk_in_buffer,
                     ongoing_read, in_urb>>

\* where the caller of ugci_draw_down goes on
AfterDrawDown(p) ==
    IF call[p] = "flush" THEN "f_clr"
    ELSE IF call[p] = "pre_reset" THEN "in_reset"
    ELSE "idle"

\* line 622-623: usb_wait_anchor_empty_timeout gives up after the timeout
DrawDownTimeout(p) ==
    /\ pc[p] = "dd_wait"
    /\ submitted > 0
    /\ Goto(p, "dd_kill")
    /\ UNCHANGED <<devvars, call, count, nonblock, rv, histvars>>
    /\ UNCHANGED <<kref, opened, deleted, urb_len, from_reset>>

\* line 624: usb_kill_anchored_urbs gives back one more anchored URB
DrawDownKill(p) ==
    /\ pc[p] = "dd_kill"
    /\ submitted > 0
    /\ ugci_write_bulk_callback(-ENOENT)
    /\ UNCHANGED <<interface, in_urb, in_len, bulk_in_buffer, bulk_in_filled,
                   bulk_in_copied, ongoing_read, io_mutex>>
    /\ UNCHANGED <<procvars, quiet, atDetach>>
    /\ UNCHANGED <<kref, opened, deleted, urb_len>>

\* mutant of DrawDownEnd: the inbound URB is not killed
DrawDownEnd_NoKill(p) ==
    /\ pc[p] \in {"dd_wait", "dd_kill"}
    /\ submitted = 0
    /\ pc' = [pc EXCEPT ![p] = AfterDrawDown(p)]
    /\ call' = [call EXCEPT ![p] = IF AfterDrawDown(p) = "idle" THEN "none" ELSE call[p]]
    /\ UNCHANGED <<devvars, count, nonblock, rv, histvars>>
    /\ UNCHANGED <<kref, opened, deleted, urb_len, from_reset>>

\* lines 622-625: the anchor is empty (in time, or after the kills);
\* usb_kill_urb(dev->bulk_in_urb); ugci_draw_down returns
DrawDownEnd(p) ==
    /\ pc[p] \in {"dd_wait", "dd_kill"}
    /\ submitted = 0
    /\ KillInbound
    /\ pc' = [pc EXCEPT ![p] = AfterDrawDown(p)]
    /\ call' = [call EXCEPT ![p] = IF AfterDrawDown(p) = "idle" THEN "none" ELSE call[p]]
    /\ UNCHANGED <<interface, limit_sem, submitted, in_len, bulk_in_copied, io_mutex>>
    /\ UNCHANGED <<count, nonblock, rv, quiet, atDetach>>
    /\ UNCHANGED <<kref, opened, deleted, urb_len>>

(* ---- ugci_flush --------------------------------------------------------- *)
\* res = dev->errors ? (dev->errors == -EPIPE ? -EPIPE : -EIO) : 0
FlushResult(e) == IF e # 0 THEN (IF e = -EPIPE THEN -EPIPE ELSE -EIO) ELSE 0

\* lines 145-147: flush(file, id) is entered
FlushCall(t) ==
    /\ pc[t] = "idle"
    /\ Goto(t, "f_lock")
    /\ call' = [call EXCEPT ![t] = "flush"]
    /\ UNCHANGED <<devvars, count, nonblock, rv, histvars>>
    /\ UNCHANGED <<kref, opened, deleted, urb_len, from_reset>>

\* lines 150-151: mutex_lock, ugci_draw_down begins
FlushLock(t) ==
    /\ pc[t] = "f_lock"
    /\ io_mutex = NoOwner
    /\ io_mutex' = t
    /\ Goto(t, "dd_wait")
    /\ UNCHANGED <<interface, limit_sem, submitted, in_urb, in_len, bulk_in_buffer,
                   bulk_in_filled, bulk_in_copied, errors, ongoing_read>>
    /\ UNCHANGED <<call, count, nonblock, rv, histvars>>
    /\ UNCHANGED <<kref, opened, deleted, urb_len, from_reset>>

\* mutant of FlushReadOut: dev->errors is reported but not cleared
FlushReadOut_NoClear(t) ==
    /\ pc[t] = "f_clr"
    /\ Return(t, FlushResult(errors))
    /\ io_mutex' = NoOwner
    /\ quiet' = (errors # 0 \/ quiet)
    /\ UNCHANGED <<interface, limit_sem, submitted, in_urb, in_len, bulk_in_buffer,
                   bulk_in_filled, bulk_in_copied, errors, ongoing_read>>
    /\ UNCHANGED <<unreported, atDetach>>
    /\ UNCHANGED <<kref, opened, deleted, urb_len, from_reset>>

\* lines 154-161: errors read out and cleared under err_lock, mutex_unlock
FlushReadOut(t) ==
    /\ pc[t] = "f_clr"
    /\ Return(t, FlushResult(errors))
    /\ errors' = 0
    /\ unreported' = FALSE
    /\ io_mutex' = NoOwner
    /\ quiet' = (errors # 0 \/ quiet)
    /\ UNCHANGED <<interface, limit_sem, submitted, in_urb, in_len, bulk_in_buffer,
                   bulk_in_filled, bulk_in_copied, ongoing_read>>
    /\ UNCHANGED <<atDetach>>
    /\ from_reset' = FALSE
    /\ UNCHANGED <<kref, opened, deleted, urb_len>>

(* ---- lifecycle callbacks, called by the USB core one at a time ---------- *)
\* lines 628-634: suspend(intf, message): ugci_draw_down without io_mutex
Suspend ==
    /\ pc[Core] = "idle"
    /\ Goto(Core, "dd_wait")
    /\ call' = [call EXCEPT ![Core] = "suspend"]
    /\ UNCHANGED <<devvars, count, nonblock, rv, histvars>>
    /\ UNCHANGED <<kref, opened, deleted, urb_len, from_reset>>

\* lines 643-648: pre_reset(intf): mutex_lock, ugci_draw_down begins
PreReset ==
    /\ pc[Core] = "idle"
    /\ io_mutex = NoOwner
    /\ io_mutex' = Core
    /\ Goto(Core, "dd_wait")
    /\ call' = [call EXCEPT ![Core] = "pre_reset"]
    /\ UNCHANGED <<interface, limit_sem, submitted, in_urb, in_len, bulk_in_buffer,
                   bulk_in_filled, bulk_in_copied, errors, ongoing_read>>
    /\ UNCHANGED <<count, nonblock, rv, histvars>>
    /\ UNCHANGED <<kref, opened, deleted, urb_len, from_reset>>

\* lines 653-661: post_reset(intf): dev->errors = -EPIPE, mutex_unlock
PostReset ==
    /\ pc[Core] = "in_reset"
    /\ errors' = -EPIPE
    /\ unreported' = TRUE
    /\ io_mutex' = NoOwner
    /\ Goto(Core, "idle")
    /\ call' = [call EXCEPT ![Core] = "none"]
    /\ quiet' = FALSE
    /\ UNCHANGED <<interface, limit_sem, submitted, in_urb, in_len, bulk_in_buffer,
                   bulk_in_filled, bulk_in_copied, ongoing_read>>
    /\ UNCHANGED <<count, nonblock, rv, atDetach>>
    /\ from_reset' = TRUE
    /\ UNCHANGED <<kref, opened, deleted, urb_len>>

\* lines 657-658 against lines 413-424: post_reset stores dev->errors without
\* err_lock, so the store can land inside the section in which a write call
\* has loaded a recorded error under err_lock and has not yet stored 0: the
\* write returns the error it loaded and its store wipes out the -EPIPE
PostResetInWrite(t) ==
    /\ pc[Core] = "in_reset"
    /\ pc[t] = "w_err"
    /\ errors < 0
    /\ errors' = 0
    /\ unreported' = FALSE
    /\ from_reset' = FALSE
    /\ limit_sem' = limit_sem + 1
    /\ io_mutex' = NoOwner
    /\ pc' = [pc EXCEPT ![t] = "ret", ![Core] = "idle"]
    /\ rv' = [rv EXCEPT ![t] = MapError(errors)]
    /\ count' = [count EXCEPT ![t] = 0]
    /\ nonblock' = [nonblock EXCEPT ![t] = FALSE]
    /\ call' = [call EXCEPT ![Core] = "none"]
    /\ quiet' = FALSE
    /\ UNCHANGED <<interface, submitted, in_urb, in_len, bulk_in_buffer, bulk_in_filled,
                   bulk_in_copied, ongoing_read>>
    /\ UNCHANGED <<atDetach, lifevars, urb_len>>

\* lines 599-603: disconnect(interface) is entered
Disconnect ==
    /\ pc[Core] = "idle"
    /\ Goto(Core, "d_lock")
    /\ call' = [call EXCEPT ![Core] = "disconnect"]
    /\ atDetach' = {t \in Threads : Blocked(t)}
    /\ UNCHANGED <<devvars, count, nonblock, rv, unreported, quiet>>
    /\ UNCHANGED <<kref, opened, deleted, urb_len, from_reset>>

\* lines 606-608: mutex_lock, dev->interface = NULL, mutex_unlock
DisconnectClear ==
    /\ pc[Core] = "d_lock"
    /\ io_mutex = NoOwner
    /\ interface' = FALSE
    /\ Goto(Core, "d_kill")
    /\ UNCHANGED <<limit_sem, submitted, in_urb, in_len, bulk_in_buffer, bulk_in_filled,
                   bulk_in_copied, errors, ongoing_read, io_mutex>>
    /\ UNCHANGED <<call, count, nonblock, rv, histvars>>
    /\ UNCHANGED <<kref, opened, deleted, urb_len, from_reset>>

\* line 610: usb_kill_anchored_urbs gives back one more anchored URB
DisconnectKill ==
    /\ pc[Core] = "d_kill"
    /\ submitted > 0
    /\ ugci_write_bulk_callback(-ENOENT)
    /\ UNCHANGED <<interface, in_urb, in_len, bulk_in_buffer, bulk_in_filled,
                   bulk_in_copied, ongoing_read, io_mutex>>
    /\ UNCHANGED <<procvars, quiet, atDetach>>
    /\ UNCHANGED <<kref, opened, deleted, urb_len>>

\* lines 610-616: the anchor is empty; kref_put; disconnect returns
DisconnectEnd ==
    /\ pc[Core] = "d_kill"
    /\ submitted = 0
    /\ kref_put
    /\ Goto(Core, "gone")
    /\ call' = [call EXCEPT ![Core] = "none"]
    /\ UNCHANGED <<devvars, count, nonblock, rv, histvars>>
    /\ UNCHANGED <<opened, urb_len, from_reset>>

(* ---- ugci_probe, ugci_open, ugci_release, ugci_delete -------------------- *)
\* the struct as lines 526-538 of ugci_probe leave it: kref_init has run, the
\* device is not registered yet and no file is open
InitProbe ==
    /\ interface = TRUE
    /\ limit_sem = WRITES_IN_FLIGHT
    /\ submitted = 0
    /\ in_urb = 0
    /\ in_len = 0
    /\ bulk_in_buffer = [i \in 1..BulkInSize |-> "none"]
    /\ bulk_in_filled = 0
    /\ bulk_in_copied = 0
    /\ errors = 0
    /\ ongoing_read = FALSE
    /\ io_mutex = NoOwner
    /\ pc = [p \in Procs |-> IF p = Core THEN "probe" ELSE "idle"]
    /\ call = [p \in Procs |-> "none"]
    /\ count = [t \in Threads |-> 0]
    /\ nonblock = [t \in Threads |-> FALSE]
    /\ rv = [t \in Threads |-> 0]
    /\ unreported = FALSE
    /\ quiet = FALSE
    /\ atDetach = {}
    /\ kref = 1
    /\ opened = {}
    /\ deleted = 0
    /\ urb_len = [t \in Threads |-> 0]
    /\ from_reset = FALSE

\* usb_get_intfdata(interface) returns dev and the minor is registered: from
\* the end of a successful ugci_probe to the entry of ugci_disconnect
Registered ==
    pc[Core] \notin {"probe", "failed", "d_lock", "d_kill", "gone"}

\* lines 540-587: ugci_probe succeeds: usb_set_intfdata, usb_register_dev
ProbeOk ==
    /\ pc[Core] = "probe"
    /\ Goto(Core, "idle")
    /\ UNCHANGED <<devvars, call, count, nonblock, rv, histvars>>
    /\ UNCHANGED <<lifevars, urb_len, from_reset>>

\* lines 544-578, 589-591: ugci_probe fails (endpoints, allocation or
\* registration) and drops its reference
ProbeFail ==
    /\ pc[Core] = "probe"
    /\ kref_put
    /\ Goto(Core, "failed")
    /\ UNCHANGED <<devvars, call, count, nonblock, rv, histvars>>
    /\ UNCHANGED <<opened, urb_len, from_reset>>

\* mutant of ugci_open: the file is set up without kref_get
ugci_open_NoGet(t) ==
    /\ pc[t] = "idle"
    /\ t \notin opened
    /\ Registered
    /\ opened' = opened \cup {t}
    /\ UNCHANGED <<devvars, procvars, histvars, kref, deleted, urb_len, from_reset>>

\* lines 82-119: open(inode, file) finds the device and takes a reference
\* (an open that finds no device returns -ENODEV and changes nothing)
ugci_open(t) ==
    /\ pc[t] = "idle"
    /\ t \notin opened
    /\ Registered
    /\ kref' = kref + 1
    /\ opened' = opened \cup {t}
    /\ UNCHANGED <<devvars, procvars, histvars, deleted, urb_len, from_reset>>

\* lines 121-138: release(inode, file), called when no call on the file is
\* in progress: io_mutex is taken and released, then kref_put
ugci_release(t) ==
    /\ pc[t] = "idle"
    /\ t \in opened
    /\ io_mutex = NoOwner
    /\ kref_put
    /\ opened' = opened \ {t}
    /\ UNCHANGED <<devvars, procvars, histvars, urb_len, from_reset>>

(* ---- the system ---------------------------------------------------------- *)
ReadStep(t) ==
    \/ ReadCall(t)
    \/ ReadLock(t)
    \/ ReadLockInterrupted(t)
    \/ ReadRetry(t)
    \/ ReadWait(t)
    \/ ReadWaitInterrupted(t)
    \/ ReadLoadError(t)
    \/ ReadClearError(t)
    \/ ReadStartIo(t)
    \/ ReadDeliver(t)

WriteStep(t) ==
    \/ WriteCall(t)
    \/ WriteDown(t)
    \/ WriteWouldBlock(t)
    \/ WriteDownInterrupted(t)
    \/ WriteTakeError(t)
    \/ WritePrepare(t)
    \/ WriteSubmit(t)

FlushStep(t) ==
    \/ FlushCall(t)
    \/ FlushLock(t)
    \/ FlushReadOut(t)

DrawDownStep(p) ==
    \/ DrawDownTimeout(p)
    \/ DrawDownKill(p)
    \/ DrawDownEnd(p)

CoreStep ==
    \/ Suspend
    \/ PreReset
    \/ PostReset
    \/ \E t \in Threads : PostResetInWrite(t)
    \/ Disconnect
    \/ DisconnectClear
    \/ DisconnectKill
    \/ DisconnectEnd

Next ==
    \/ \E t \in Threads : ReadStep(t)
    \/ \E t \in Threads : WriteStep(t)
    \/ \E t \in Threads : FlushStep(t)
    \/ \E t \in Threads : Done(t)
    \/ \E p \in Procs : DrawDownStep(p)
    \/ CoreStep
    \/ ReadComplete
    \/ WriteComplete

Spec == Init /\ [][Next]_vars

(* ---- the specifications the properties are checked under ---------------- *)
(* The whole system (Spec) has about 19 million states for two threads;    *)
(* each property is checked on the part of the system it is about.         *)

\* the outbound side: write and flush calls, every lifecycle callback
NextW ==
    \/ \E t \in Threads : WriteStep(t)
    \/ \E t \in Threads : FlushStep(t)
    \/ \E t \in Threads : Done(t)
    \/ \E p \in Procs : DrawDownStep(p)
    \/ CoreStep
    \/ WriteComplete

SpecW == Init /\ [][NextW]_vars

\* SpecW with the scheduling the kernel provides: the host controller gives
\* back every URB it was handed, and up() hands the permit to a sleeper of
\* down_interruptible (the semaphore's wait list is served first come first
\* served), so a sleeper is not passed over for ever
FairSpecW ==
    /\ SpecW
    /\ WF_vars(WriteComplete)
    /\ \A t \in Threads : SF_vars(WriteDown(t))

\* the inbound side: read and flush calls, every lifecycle callback (no
\* outbound URB exists, so the anchor is always found empty)
NextR ==
    \/ \E t \in Threads : ReadStep(t)
    \/ \E t \in Threads : FlushStep(t)
    \/ \E t \in Threads : Done(t)
    \/ \E p \in Procs : DrawDownEnd(p)
    \/ Suspend
    \/ PreReset
    \/ PostReset
    \/ Disconnect
    \/ DisconnectClear
    \/ DisconnectEnd
    \/ ReadComplete

SpecR == Init /\ [][NextR]_vars

\* error reporting: read, write and flush calls against both callbacks
NextE ==
    \/ \E t \in Threads : ReadStep(t)
    \/ \E t \in Threads : WriteStep(t)
    \/ \E t \in Threads : FlushStep(t)
    \/ \E t \in Threads : Done(t)
    \/ \E p \in Procs : DrawDownStep(p)
    \/ ReadComplete
    \/ WriteComplete

SpecE == Init /\ [][NextE]_vars

\* which calls a thread issues in the specifications that give each thread
\* one kind of transfer
Readers == {t \in Threads : t % 2 = 1}
Writers == Threads \ Readers

\* life cycle: probe, open and release, detach; one thread reads, the other
\* writes
NextL ==
    \/ ProbeOk
    \/ ProbeFail
    \/ \E t \in Threads : ugci_open(t)
    \/ \E t \in Threads : ugci_release(t)
    \/ \E t \in Threads : t \in Readers /\ t \in opened /\ ReadStep(t)
    \/ \E t \in Threads : t \in Writers /\ t \in opened /\ WriteStep(t)
    \/ \E t \in Threads : Done(t)
    \/ Disconnect
    \/ DisconnectClear
    \/ DisconnectKill
    \/ DisconnectEnd
    \/ ReadComplete
    \/ WriteComplete

SpecL == InitProbe /\ [][NextL]_vars

\* reset and flush: one thread reads, the other writes, both flush, the USB
\* core resets the device
NextX ==
    \/ \E t \in Threads : t \in Readers /\ ReadStep(t)
    \/ \E t \in Threads : t \in Writers /\ WriteStep(t)
    \/ \E t \in Threads : FlushStep(t)
    \/ \E t \in Threads : Done(t)
    \/ \E p \in Procs : DrawDownStep(p)
    \/ PreReset
    \/ PostReset
    \/ \E t \in Threads : PostResetInWrite(t)
    \/ ReadComplete
    \/ WriteComplete

SpecX == Init /\ [][NextX]_vars

(* ======================= properties ====================================== *)

\* C1: in every reachable state the number of outbound requests submitted
\* and not yet completed is at most WRITES_IN_FLIGHT.
C1_WritesInFlight == submitted <= WRITES_IN_FLIGHT

\* C1 witness: every permit is held by an outstanding request and a further,
\* non-blocking write has been refused.
C1_Witness ==
    /\ submitted = WRITES_IN_FLIGHT
    /\ \E t \in Threads : pc[t] = "ret" /\ call[t] = "write" /\ rv[t] = -EAGAIN

\* C2: in every reachable state at most one inbound transfer is outstanding.
C2_OneInbound == in_urb <= 1

\* C2 witness: a read has returned data and left its read-ahead transfer
\* outstanding while another read call is inside its retry loop.
C2_Witness ==
    /\ in_urb = 1
    /\ \E t, u \in Threads :
          /\ t # u
          /\ pc[t] = "ret" /\ call[t] = "read" /\ rv[t] > 0
          /\ pc[u] \in {"r_retry", "r_wait"}

\* C9: in every reachable state bulk_in_copied <= bulk_in_filled <= bulk_in_size.
C9_Offsets ==
    /\ bulk_in_copied <= bulk_in_filled
    /\ bulk_in_filled <= BulkInSize

\* C9 witness: a read shorter than the buffered data has left the buffer
\* partly consumed.
C9_Witness ==
    /\ 0 < bulk_in_copied
    /\ bulk_in_copied < bulk_in_filled

\* the step in which the read of thread t copies data out and returns
Delivers(t) == pc[t] = "r_err" /\ pc'[t] = "ret" /\ errors >= 0 /\ bulk_in_filled > bulk_in_copied

\* the case of C8: k = bulk_in_filled bytes have arrived, none is consumed,
\* and the read of thread t, asking for more than k, delivers
ShortRead(t) == Delivers(t) /\ bulk_in_copied = 0 /\ count[t] > bulk_in_filled

\* C8 as stated: such a read returns exactly k bytes, leaves consumed = k and
\* submits nothing (the subsequent read does).
C8_AsStated ==
    [][\A t \in Threads :
          ShortRead(t) /\ rv'[t] >= 0 =>
             /\ rv'[t] = bulk_in_filled
             /\ bulk_in_copied' = bulk_in_filled
             /\ in_urb' = in_urb]_vars

\* C8 amended: such a read returns exactly k bytes (or Fault when the
\* caller's buffer cannot be written); this same read starts the read-ahead
\* (ugci_do_read_io), which resets filled and consumed to 0 and, unless the
\* submission fails, leaves a new inbound transfer outstanding; and no read
\* ever delivers a byte that was delivered before.
C8_ReadAhead ==
    [][\A t \in Threads :
          /\ ShortRead(t) =>
                /\ rv'[t] \in {bulk_in_filled, -EFAULT}
                /\ bulk_in_filled' = 0
                /\ bulk_in_copied' = 0
                /\ \/ in_urb' = in_urb + 1 /\ ongoing_read'
                   \/ in_urb' = in_urb /\ ~ongoing_read'
          /\ Delivers(t) /\ rv'[t] > 0 =>
                \A i \in (bulk_in_copied + 1)..(bulk_in_copied + rv'[t]) :
                   bulk_in_buffer[i] = "fresh"]_vars

\* C8 witness: a read that asked for more than the buffer holds has returned
\* a full buffer of bytes and its read-ahead transfer is outstanding.
C8_Witness ==
    \E t \in Threads :
       /\ pc[t] = "ret" /\ call[t] = "read"
       /\ rv[t] = BulkInSize /\ count[t] > BulkInSize
       /\ in_urb = 1 /\ ongoing_read
       /\ bulk_in_filled = 0 /\ bulk_in_copied = 0

\* the step in which some call other than a read takes dev->errors and
\* clears it in one go (ugci_write, ugci_flush: under err_lock)
TakesError(t) ==
    \/ pc[t] = "w_err" /\ errors < 0 /\ pc'[t] = "ret"
    \/ pc[t] = "f_clr" /\ errors # 0 /\ pc'[t] = "ret"

\* the step in which some call picks up dev->errors to return it
PicksUpError(t) ==
    \/ pc[t] = "r_err" /\ pc'[t] = "r_errclr"
    \/ TakesError(t)

\* C3 as stated: a read or write call that was blocked when detach began
\* returns Detached or Interrupted.
C3_AsStated ==
    \A t \in atDetach :
       pc[t] = "ret" => rv[t] \in {-ENODEV, -EINTR, -ERESTARTSYS}

\* C4 as stated: a genuine (non-cancellation) error recorded in dev->errors
\* and not yet picked up by a call stays as it is until a call takes it: it
\* is neither overwritten nor cleared by a call that returns something else.
C4_AsStated ==
    [][(unreported /\ errors < 0 /\ ~IsUnlink(errors)) =>
          \/ errors' = errors
          \/ \E t \in Threads : TakesError(t)]_vars

\* C5 as stated: a call picks up dev->errors only when no other call has
\* picked up the same occurrence before (no occurrence is returned twice).
C5_AsStated ==
    [][\A t \in Threads : PicksUpError(t) => unreported]_vars

\* C6 as stated: a transfer given back as cancelled (by ugci_draw_down in
\* flush, suspend or pre_reset, or by disconnect) leaves dev->errors as it was.
C6_AsStated ==
    [][(\/ \E p \in Procs : DrawDownKill(p)
        \/ \E p \in Procs : DrawDownEnd(p) /\ in_urb > 0
        \/ DisconnectKill) => errors' = errors]_vars

\* C7: the flush that returns leaves dev->errors cleared, and a flush that
\* reads out dev->errors after a flush returned an error, with no step of a
\* read or write call and no post_reset in between, returns 0.
C7_SecondFlush ==
    [][\A t \in Threads :
          (pc[t] = "f_clr" /\ pc'[t] = "ret") =>
             /\ errors' = 0
             /\ quiet => rv'[t] = 0]_vars

\* C7 witness: a flush is about to read out dev->errors after another flush
\* returned an error and nothing but lifecycle and completion steps ran since.
C7_Witness ==
    /\ quiet
    /\ \E t \in Threads : pc[t] = "f_clr"

\* a blocking write of thread t waits for a permit while all of them are
\* held by outstanding requests
Stalled(t) == pc[t] = "w_down" /\ ~nonblock[t] /\ submitted = WRITES_IN_FLIGHT

\* C10 as stated: while all permits are held by outstanding writes the
\* further blocking write neither submits nor returns.
C10_AsStated ==
    [][\A t \in Threads : Stalled(t) => pc'[t] = "w_down" /\ submitted' <= submitted]_vars

\* C10 amended: while all permits are held by outstanding writes the further
\* blocking write submits nothing and does not return, except with
\* -ERESTARTSYS (Interrupted) when a signal ends its wait; and it does not
\* wait for ever: once outstanding writes complete it takes a permit and goes
\* on to the error check (or has been interrupted).
C10_StallsThenProceeds ==
    /\ [][\A t \in Threads :
             Stalled(t) =>
                /\ submitted' <= submitted
                /\ \/ pc'[t] = "w_down"
                   \/ pc'[t] = "ret" /\ rv'[t] = -ERESTARTSYS]_vars
    /\ \A t \in Threads : Stalled(t) ~> (pc[t] = "w_err" \/ (pc[t] = "ret" /\ rv[t] = -ERESTARTSYS))

\* C10 witness: a blocking write waits at admission while all permits are
\* held by outstanding requests.
C10_Witness == \E t \in Threads : Stalled(t) /\ limit_sem = 0

\* what a call reports for a recorded status e: DeviceReset (-EPIPE) for the
\* pipe/reset-class status, IOError (-EIO) for any other
Reported(e) == IF e = -EPIPE THEN -EPIPE ELSE -EIO

\* C11: a read, write or flush call that finds a status recorded in
\* dev->errors when it reaches its error check returns DeviceReset for the
\* pipe/reset-class status and IOError for any other, and leaves dev->errors
\* cleared; a call that finds nothing recorded there does not return
\* DeviceReset (the read after the one that reported the pipe error, with no
\* new error recorded, goes on to its data).
C11_ErrorCodes ==
    [][\A t \in Threads :
          /\ (pc[t] = "r_err" /\ errors < 0 /\ pc'[t] # "r_err") =>
                (pc'[t] = "r_errclr" /\ rv'[t] = errors)
          /\ (pc[t] = "r_errclr" /\ pc'[t] # "r_errclr") =>
                (pc'[t] = "ret" /\ rv'[t] = Reported(rv[t]) /\ errors' = 0)
          /\ (pc[t] = "w_err" /\ errors < 0 /\ pc'[t] # "w_err") =>
                (pc'[t] = "ret" /\ rv'[t] = Reported(errors) /\ errors' = 0)
          /\ (pc[t] = "f_clr" /\ errors # 0 /\ pc'[t] # "f_clr") =>
                (pc'[t] = "ret" /\ rv'[t] = Reported(errors) /\ errors' = 0)
          /\ (pc[t] \in {"r_err", "w_err", "f_clr"} /\ errors = 0 /\ pc'[t] = "ret") =>
                rv'[t] # -EPIPE]_vars

\* C11 witness: a read has returned DeviceReset for a recorded pipe error and
\* dev->errors is clear again.
C11_Witness ==
    \E t \in Threads : pc[t] = "ret" /\ call[t] = "read" /\ rv[t] = -EPIPE /\ errors = 0

\* the step in which the write call of thread t leaves its submission
\* step and returns
WriteReturnsFromSubmit(t) == pc[t] = "w_lock" /\ pc'[t] = "ret"

\* C12: a write of length > 0 that has passed admission, the error check and
\* the buffer set-up returns from its submission step either with a failure
\* and nothing submitted, or with exactly min(length, MAX_TRANSFER) having
\* submitted exactly one outbound request of exactly that many bytes, while
\* the device is attached; it returns with that request still outstanding and
\* its permit still held; and a request is never submitted in any other way.
C12_WriteSubmits ==
    [][/\ \A t \in Threads :
             WriteReturnsFromSubmit(t) =>
                \/ /\ rv'[t] < 0
                   /\ submitted' = submitted
                   /\ urb_len'[t] = 0
                \/ /\ count[t] > 0
                   /\ rv'[t] = (IF count[t] < MAX_TRANSFER THEN count[t] ELSE MAX_TRANSFER)
                   /\ urb_len'[t] = rv'[t]
                   /\ submitted' = submitted + 1
                   /\ limit_sem' = limit_sem
                   /\ interface
       /\ submitted' > submitted =>
             \E t \in Threads : WriteReturnsFromSubmit(t) /\ rv'[t] > 0]_vars

\* C12 witness: a write of more than MAX_TRANSFER bytes has returned
\* MAX_TRANSFER and its request of MAX_TRANSFER bytes is outstanding.
C12_Witness ==
    \E t \in Threads :
       /\ pc[t] = "ret" /\ call[t] = "write"
       /\ rv[t] = MAX_TRANSFER /\ urb_len[t] = MAX_TRANSFER
       /\ submitted > 0 /\ limit_sem < WRITES_IN_FLIGHT

\* write calls that hold a permit: past admission, not yet returned and
\* their request not yet submitted
HoldingPermit == {t \in Threads : pc[t] \in {"w_err", "w_lock"}}

\* C15: free permits + outstanding outbound requests + write calls holding a
\* permit = WRITES_IN_FLIGHT in every reachable state; a write call that
\* fails after admission releases exactly one permit and registers no
\* request; every outbound completion, whatever its status, releases exactly
\* one permit.
C15_PermitsConserved ==
    /\ [](limit_sem + submitted + Cardinality(HoldingPermit) = WRITES_IN_FLIGHT)
    /\ [][\A t \in HoldingPermit :
             (pc'[t] = "ret" /\ rv'[t] < 0) =>
                (limit_sem' = limit_sem + 1 /\ submitted' = submitted)]_vars
    /\ [][submitted' < submitted =>
             (submitted' = submitted - 1 /\ limit_sem' = limit_sem + 1)]_vars

\* C15 witness: a write call has failed after admission (-EFAULT) while
\* another holds a permit and a request is outstanding.
C15_Witness ==
    /\ \E t \in Threads : pc[t] = "ret" /\ call[t] = "write" /\ rv[t] = -EFAULT
    /\ HoldingPermit # {}
    /\ submitted > 0

\* the reference ugci_probe took is still held: ugci_probe has not failed
\* and ugci_disconnect has not dropped it
ProbeRefHeld == pc[Core] \notin {"failed", "gone"}

\* C13: the struct is destroyed (ugci_delete runs) at most once, exactly
\* when the reference count has gone from 1 to 0 and never while it is
\* positive; the count is one for the attachment plus one per open file, so
\* detach with files still open does not destroy the struct, and after any
\* sequence of open, release and detach it is destroyed if and only if
\* detach has run (or attach failed) and every open file has been released.
C13_DestroyedOnce ==
    /\ deleted \in {0, 1}
    /\ kref >= 0
    /\ (deleted = 1) <=> (kref = 0)
    /\ kref = (IF ProbeRefHeld THEN 1 ELSE 0) + Cardinality(opened)
    /\ (deleted = 1) <=> (~ProbeRefHeld /\ opened = {})

\* C13 witness: detach has returned with a file still open, and the struct
\* is not destroyed.
C13_Witness ==
    pc[Core] = "gone" /\ opened # {} /\ kref = Cardinality(opened) /\ deleted = 0

\* C14 as stated: when the struct has been destroyed no inbound and no
\* outbound transfer is outstanding.
C14_AsStated == deleted > 0 => (in_urb = 0 /\ submitted = 0)

\* the step in which the read call of thread t submits the inbound URB
ReadSubmits(t) == pc[t] = "r_err" /\ io_mutex = t /\ in_urb' = in_urb + 1

\* the step in which the write call of thread t takes io_mutex, submits its
\* URB and releases io_mutex
WriteSubmits(t) ==
    pc[t] = "w_lock" /\ io_mutex = NoOwner /\ pc'[t] = "ret" /\ submitted' = submitted + 1

\* C16: dev->interface stays NULL once detach has cleared it; every
\* submission, inbound or outbound, is made by a call that holds io_mutex
\* and found dev->interface set under that hold, so none is made once
\* detach has cleared it; from then on a read of length > 0 that gets
\* io_mutex fails with -ENODEV and a write that gets there fails with
\* -ENODEV without submitting.
C16_NoSubmitAfterDetach ==
    [][/\ ~interface => ~interface'
       /\ (in_urb' > in_urb \/ submitted' > submitted) =>
             (interface /\ \E t \in Threads : ReadSubmits(t) \/ WriteSubmits(t))
       /\ \A t \in Threads :
             (~interface /\ pc[t] = "r_lock" /\ io_mutex = NoOwner /\ pc'[t] # "r_lock") =>
                (pc'[t] = "ret" /\ rv'[t] = -ENODEV)
       /\ \A t \in Threads :
             (~interface /\ pc[t] = "w_lock" /\ pc'[t] # "w_lock") =>
                (pc'[t] = "ret" /\ rv'[t] = -ENODEV /\ submitted' = submitted)]_vars

\* C16 witness: after detach a read and a write have both failed with
\* -ENODEV.
C16_Witness ==
    /\ ~interface
    /\ \E t \in Threads : pc[t] = "ret" /\ call[t] = "read" /\ rv[t] = -ENODEV
    /\ \E t \in Threads : pc[t] = "ret" /\ call[t] = "write" /\ rv[t] = -ENODEV

\* C17 as stated: when detach has returned neither an outbound nor the
\* inbound request is outstanding.
C17_AsStated == pc[Core] = "gone" => (submitted = 0 /\ in_urb = 0)

\* io_mutex is held after a drain: between the return of pre_reset and the
\* unlock in post_reset, or between ugci_draw_down and the unlock in flush
Drained == pc[Core] = "in_reset" \/ \E t \in Threads : pc[t] = "f_clr"

\* C18: from the return of pre_reset until post_reset releases io_mutex, and
\* from the end of ugci_draw_down in flush until flush releases io_mutex, no
\* inbound or outbound transfer is outstanding, none is submitted and no
\* completion handler runs.
C18_QuietAfterDrain ==
    /\ [](Drained => (submitted = 0 /\ in_urb = 0 /\ ~ongoing_read))
    /\ [][Drained => (submitted' = submitted /\ in_urb' = in_urb)]_vars

\* C18 witness: the device is being reset while a write call waits to
\* submit and a read call waits for io_mutex.
C18_Witness ==
    /\ pc[Core] = "in_reset"
    /\ \E t \in Threads : pc[t] = "w_lock"
    /\ \E t \in Threads : pc[t] = "r_lock"

\* C19 as stated: post_reset leaves -EPIPE recorded; the recorded reset code
\* stays in dev->errors until a call picks it up (it is not lost), and no
\* call picks it up after another has (it is not delivered twice).
C19_AsStated ==
    [][/\ (pc[Core] = "in_reset" /\ pc'[Core] = "idle") => errors' = -EPIPE
       /\ (from_reset /\ unreported) =>
             (errors' = errors \/ \E t \in Threads : PicksUpError(t))
       /\ \A t \in Threads : (PicksUpError(t) /\ from_reset) => unreported]_vars

\* C20 as stated: a read call that waits for the inbound completion does not
\* hold io_mutex.
C20_AsStated == \A t \in Threads : pc[t] = "r_wait" => io_mutex # t

====
